---- MODULE Spec2Model ----
(***************************************************************************)
(* Model of src/main.py: a Slack bot that turns a reaction on a message    *)
(* into a Linear issue (reaction_handler) and answers mentions             *)
(* (healthcheck).  Every handler invocation is a process with its own      *)
(* locals; the Slack Web API, the Gemini agent and the Linear GraphQL API  *)
(* are the environment, whose answers are chosen nondeterministically.     *)
(* The Japanese reply texts of the source are written in romaji, since the *)
(* strings of a module are ASCII.                                          *)
(***************************************************************************)
EXTENDS Integers, Sequences, FiniteSets, TLC

\* ------------------------------------------------------------------ bounds

\* Longest reaction_mentions list of a configuration.
MaxRules == 2

\* ------------------------------------------------------------ input domains

Handlers == {"h1", "h2"}
MentionHandlers == {"m1"}
Invocations == Handlers \cup MentionHandlers
Reactions == {"eyes", "bug"}
Users == {"U1", "U2"}
Channels == {"C1", "C2"}
Timestamps == {"100.1", "100.2"}
EventTs == "200.0"
RuleMentions == {"<@U1>"}
TeamNames == {"TeamA", "TeamB"}
Texts == {"fix the login bug", "add dark mode"}
Titles == {"Fix login bug", "Login fails"}
IssueIds == {"abc-123", "def-456"}
StateName == "Todo"

\* ------------------------------------------------------------ python values

\* Python's None; every value that may be None is a record with a tag.
None == [tag |-> "None"]
Str(s) == [tag |-> "str", v |-> s]

\* The outcome of a call: it raised, or it returned value.
Raise == [raised |-> TRUE, value |-> None]
Return(v) == [raised |-> FALSE, value |-> v]

\* bool(x) of the values the handler tests: None and the empty dict are
\* falsy, a dataclass instance and a non-empty dict are truthy.
Truthy(x) == x.tag \notin {"None", "emptydict"}

\* ------------------------------------------------------------ configuration

Rules == [reaction : Reactions, mention : RuleMentions, team_id : TeamNames]

RECURSIVE SeqsUpTo(_, _)
SeqsUpTo(S, n) ==
    IF n = 0 THEN {<<>>}
    ELSE LET shorter == SeqsUpTo(S, n - 1)
         IN  shorter \cup {Append(s, x) : s \in {t \in shorter : Len(t) = n - 1}, x \in S}

Configs == [reaction_mentions : SeqsUpTo(Rules, MaxRules)]

\* --------------------------------------------------------------- the events

ReactionEvents ==
    [reaction : Reactions, user : Users,
     item : [channel : Channels, ts : Timestamps], event_ts : {EventTs}]

\* body["event"] of an app_mention event; its text is a sequence of characters.
MentionTexts ==
    {<<"p", "i", "n", "g">>,
     <<"P", "I", "N", "G">>,
     <<"<", "@", "B", ">", " ", "P", "i", "n", "g", "?">>,
     <<"c", "o", "n", "f", "i", "g">>,
     <<"s", "h", "o", "w", " ", "C", "o", "n", "f", "i", "g">>,
     <<"h", "e", "l", "p">>,
     <<"H", "E", "L", "P", " ", "m", "e">>,
     <<"h", "e", "l", "p", " ", "p", "i", "n", "g">>,
     <<"h", "e", "l", "l", "o">>,
     <<"p", "i", "n", " ", "g">>,
     <<"c", "o", "n", "f">>,
     <<>>}

MentionEvents == [text : MentionTexts, channel : Channels, ts : Timestamps]

\* ------------------------------------------------------ environment answers

\* client.conversations_history: raises, or a response whose "messages" is
\* missing, empty, or holds one message with or without a "text" key.
HistoryResponses ==
    {[raises |-> TRUE, shape |-> "none", text |-> ""]}
    \cup {[raises |-> FALSE, shape |-> s, text |-> ""] : s \in {"noMessages", "empty", "noText"}}
    \cup {[raises |-> FALSE, shape |-> "message", text |-> t] : t \in Texts}

\* agent.run_sync: raises, or a result with an output.
AgentResults ==
    {[raises |-> TRUE, output |-> ""]}
    \cup {[raises |-> FALSE, output |-> t] : t \in Titles}

\* requests.post of the teams query.
TeamResponses ==
    {[raises |-> TRUE, status |-> 0, shape |-> "none", nodes |-> <<>>]}
    \cup {[raises |-> FALSE, status |-> 500, shape |-> "none", nodes |-> <<>>]}
    \cup {[raises |-> FALSE, status |-> 200, shape |-> s, nodes |-> <<>>] :
            s \in {"unparseable", "noData", "dataNull", "noTeams"}}
    \cup {[raises |-> FALSE, status |-> 200, shape |-> "teams", nodes |-> n] :
            n \in {<<>>, <<"uuid-1">>, <<"uuid-2", "uuid-1">>}}

\* requests.post of the workflowStates query.
StateResponses ==
    {[raises |-> TRUE, status |-> 0, shape |-> "none", nodes |-> <<>>]}
    \cup {[raises |-> FALSE, status |-> 500, shape |-> "none", nodes |-> <<>>]}
    \cup {[raises |-> FALSE, status |-> 200, shape |-> s, nodes |-> <<>>] :
            s \in {"noData", "noWorkflowStates"}}
    \cup {[raises |-> FALSE, status |-> 200, shape |-> "states", nodes |-> n] :
            n \in {<<>>, <<[id |-> "state-1", name |-> "TODO"]>>}}

\* requests.post of the issueCreate mutation.
CreateResponses ==
    {[raises |-> TRUE, status |-> 0, shape |-> "none", id |-> "", title |-> ""]}
    \cup {[raises |-> FALSE, status |-> s, shape |-> "none", id |-> "", title |-> ""] :
            s \in {400, 500}}
    \cup {[raises |-> FALSE, status |-> 200, shape |-> s, id |-> "", title |-> ""] :
            s \in {"unparseable", "empty", "noData", "dataNull", "noIssueCreate",
                   "issueCreateNull", "noIssue", "issueNull", "issueEmpty"}}
    \cup {[raises |-> FALSE, status |-> 200, shape |-> "issueNoTitle", id |-> i, title |-> ""] :
            i \in IssueIds}
    \cup {[raises |-> FALSE, status |-> 200, shape |-> "issue", id |-> i, title |-> t] :
            i \in IssueIds, t \in Titles}

\* ---------------------------------------------------------------- matching

\* f"<@{user}>"
Mention(user) == "<@" \o user \o ">"

\* The test of line 238 without its second conjunct.
RuleMatches_ReactionOnly(value, reaction_name, user) ==
    value.reaction = reaction_name

\* The test of line 238.
RuleMatches(value, reaction_name, user) ==
    value.reaction = reaction_name /\ value.mention = Mention(user)

\* The scan without its stop at the first match: the last matching rule wins.
RECURSIVE FirstMatchFrom_LastWins(_, _, _, _)
FirstMatchFrom_LastWins(v, reaction_name, user, i) ==
    IF i > Len(v) THEN 0
    ELSE LET later == FirstMatchFrom_LastWins(v, reaction_name, user, i + 1)
         IN  IF later # 0 THEN later
             ELSE IF v[i].reaction = reaction_name /\ v[i].mention = "<@" \o user \o ">"
             THEN i ELSE 0

\* The inner for loop from position i on: the index of the first rule that
\* matches, or 0 when the loop runs off the end of the list.
RECURSIVE FirstMatchFrom(_, _, _, _)
FirstMatchFrom(v, reaction_name, user, i) ==
    IF i > Len(v) THEN 0
    ELSE IF RuleMatches(v[i], reaction_name, user) THEN i
    ELSE FirstMatchFrom(v, reaction_name, user, i + 1)

\* The loop without the break of line 306: it goes on to the next rule.
LoopAfterTry_NoBreak(i, n) == i + 1

\* Where the inner loop stands after the try block ends without a return:
\* the break of line 306 leaves the loop.
LoopAfterTry(i, n) == n + 1

\* A handler that replies in the thread of the reaction event itself.
ThreadTsOf_EventTs(reaction) == reaction.event_ts

\* The locals of lines 225-230.
ChannelOf(reaction) == reaction.item.channel
ThreadTsOf(reaction) == reaction.item.ts
MessageTsOf(reaction) == reaction.item.ts

\* -------------------------------------------------------------- reply texts

AckText(value) == value.mention \o " yarimasu!"
TitleFailedText == "Issue no title wo seisei dekimasen deshita."
CreateFailedText == "Issue no sakusei ni shippai shimashita."
FetchFailedText == "Message no shutoku ni shippai shimashita."
SuccessText_TitleInUrl(issue) ==
    "Atarashii Issue ga sakusei saremashita: " \o issue.title
    \o " (URL: https://linear.app/ivry/issue/" \o issue.title \o ")"
SuccessText(issue) ==
    "Atarashii Issue ga sakusei saremashita: " \o issue.title
    \o " (URL: https://linear.app/ivry/issue/" \o issue.id \o ")"

\* ---------------------------------------------------------- pure functions

\* response.get("messages", [])
MessagesOf(response) ==
    CASE response.shape = "message" -> <<[hasText |-> TRUE, text |-> response.text]>>
      [] response.shape = "noText" -> <<[hasText |-> FALSE, text |-> ""]>>
      [] OTHER -> <<>>

\* Lines 245-257 without the test of line 251: messages[0] raises an
\* IndexError on an empty list.
fetch_message_text_NoEmptyCheck(response) ==
    IF response.raises \/ response.shape \in {"noMessages", "empty", "noText"} THEN Raise
    ELSE Return(Str(response.text))

\* Lines 245-257, given the answer to conversations_history: the call raises,
\* the handler returns at line 253 (None here), message["text"] raises a
\* KeyError, or message_text is bound.
fetch_message_text(response) ==
    IF response.raises THEN Raise
    ELSE IF MessagesOf(response) = <<>> THEN Return(None)
    ELSE IF ~MessagesOf(response)[1].hasText THEN Raise
    ELSE Return(Str(MessagesOf(response)[1].text))

\* llm(body) swallowing the agent's error and returning a draft without title.
llm_EmptyTitleOnError(body, result) ==
    [raised |-> FALSE,
     value |-> [tag |-> "Issue", id |-> "",
                title |-> IF result.raises THEN "" ELSE result.output,
                description |-> body]]

llm_TitleAsDescription(body, result) ==
    IF result.raises THEN Raise
    ELSE Return([tag |-> "Issue", id |-> "", title |-> result.output,
                 description |-> result.output])

\* llm(body), given what agent.run_sync does.
llm(body, result) ==
    IF result.raises THEN Raise
    ELSE Return([tag |-> "Issue", id |-> "", title |-> result.output, description |-> body])

\* Linear.get_uuid_for_team, given the answer to its request.
get_uuid_for_team(response) ==
    IF response.raises THEN Raise
    ELSE IF response.status = 200
    THEN CASE response.shape \in {"unparseable", "dataNull"} -> Raise
           [] response.shape = "teams" /\ response.nodes # <<>> ->
                Return(Str(response.nodes[1]))
           [] OTHER -> Return(None)
    ELSE Return(None)

\* str.lower on the state names of the model.
Lower(s) == IF s \in {"Todo", "TODO"} THEN "todo" ELSE s

RECURSIVE FirstState(_, _, _)
FirstState(states, state_name, i) ==
    IF i > Len(states) THEN None
    ELSE IF Lower(states[i].name) = Lower(state_name) THEN Str(states[i].id)
    ELSE FirstState(states, state_name, i + 1)

\* Linear.get_state_id_by_name, given the answer to its request.
get_state_id_by_name(response, state_name) ==
    IF response.raises THEN Raise
    ELSE IF response.status = 200
    THEN IF response.shape \in {"noData", "noWorkflowStates"} THEN Raise
         ELSE Return(FirstState(response.nodes, state_name, 1))
    ELSE Return(None)

\* Lines 129-148 of Linear.create_issue, given the answer to the mutation.
create_issue(response) ==
    IF response.raises THEN Raise
    ELSE IF response.status = 200
    THEN CASE response.shape \in {"unparseable", "dataNull", "issueCreateNull", "noIssue"} ->
                Raise
           [] response.shape \in {"empty", "noData", "noIssueCreate", "issueNull"} ->
                Return(None)
           [] response.shape = "issueEmpty" -> Return([tag |-> "emptydict"])
           [] response.shape = "issueNoTitle" ->
                Return([tag |-> "dict", keys |-> {"id"}, id |-> response.id, title |-> ""])
           [] OTHER ->
                Return([tag |-> "dict", keys |-> {"id", "title", "description"},
                        id |-> response.id, title |-> response.title])
    ELSE Return(None)

\* The comparison with the wrong spelling of the flag.
DryRun_WrongCase(env) == env = "True"

\* str.lower on the letters of a text.
UpperLetters ==
    <<"A", "B", "C", "D", "E", "F", "G", "H", "I", "J", "K", "L", "M",
      "N", "O", "P", "Q", "R", "S", "T", "U", "V", "W", "X", "Y", "Z">>
LowerLetters ==
    <<"a", "b", "c", "d", "e", "f", "g", "h", "i", "j", "k", "l", "m",
      "n", "o", "p", "q", "r", "s", "t", "u", "v", "w", "x", "y", "z">>
LowerChar(c) ==
    IF \E i \in 1..Len(UpperLetters) : UpperLetters[i] = c
    THEN LowerLetters[CHOOSE i \in 1..Len(UpperLetters) : UpperLetters[i] = c]
    ELSE c
lower(s) == [i \in 1..Len(s) |-> LowerChar(s[i])]

\* Python's "sub in s" on strings.
In(sub, s) ==
    \E k \in 0..(Len(s) - Len(sub)) : SubSeq(s, k + 1, k + Len(sub)) = sub

PingWord == <<"p", "i", "n", "g">>
ConfigWord == <<"c", "o", "n", "f", "i", "g">>
HelpWord == <<"h", "e", "l", "p">>

\* The text of lines 201-203: one "key: value" line per item of config.
RuleStr(r) ==
    "{'reaction': '" \o r.reaction \o "', 'mention': '" \o r.mention
    \o "', 'team_id': '" \o r.team_id \o "'}"
RECURSIVE ListStr(_, _)
ListStr(v, i) ==
    IF i > Len(v) THEN ""
    ELSE (IF i > 1 THEN ", " ELSE "") \o RuleStr(v[i]) \o ListStr(v, i + 1)
ConfigText(cfg) ==
    "Genzai no settei wa ika no toori desu:\n"
    \o "reaction_mentions: [" \o ListStr(cfg.reaction_mentions, 1) \o "]\n"

\* The text of lines 208-212.
HelpText ==
    "Kono bot wa, tokutei no reaction ga tsuita message ni taishite, Linear de Issue wo sakusei shimasu."
    \o "\nReaction no settei wa config.yaml de okonaimasu."
    \o "\n\nhelp: kono message wo hyouji shimasu"
    \o "\nping: bot no outou wo kakunin shimasu"
    \o "\nconfig: genzai no settei wo hyouji shimasu"

\* The tests of lines 195-207 without .lower().
healthcheck_text_CaseSensitive(text, cfg) ==
    IF In(PingWord, text) THEN Str("pong")
    ELSE IF In(ConfigWord, text) THEN Str(ConfigText(cfg))
    ELSE IF In(HelpWord, text) THEN Str(HelpText)
    ELSE None

\* Lines 195-217: the text healthcheck replies with, or None for no reply.
healthcheck_text(text, cfg) ==
    IF In(PingWord, lower(text)) THEN Str("pong")
    ELSE IF In(ConfigWord, lower(text)) THEN Str(ConfigText(cfg))
    ELSE IF In(HelpWord, lower(text)) THEN Str(HelpText)
    ELSE None

\* os.getenv("DEBUG") == "true"
DryRun(env) == env = "true"

\* ------------------------------------------------------------------ effects

\* say(text=..., channel=..., thread_ts=...)
Say(text, channel, thread_ts) ==
    [op |-> "say", text |-> text, channel |-> channel, thread_ts |-> thread_ts]

\* An external call with its arguments and the answer it got.
Call(op, args, resp) == [op |-> op, args |-> args, resp |-> resp]

\* -------------------------------------------------------------------- state

VARIABLES
    config,            \* the loaded configuration (line 336), read-only
    DEBUG,             \* os.environ["DEBUG"], set once by main()
    stateNameDefined,  \* whether the star imports of lines 18-19 bind state_name
    pc,                \* where each handler invocation stands
    event,             \* body["event"] of each invocation
    idx,               \* position of the inner for loop over reaction_mentions
    message_text,      \* locals of reaction_handler
    issue,
    title,
    description,
    team_id,           \* the argument evaluated at line 278
    trace              \* the external calls and replies each invocation made, in order

vars == <<config, DEBUG, stateNameDefined, pc, event, idx, message_text, issue,
          title, description, team_id, trace>>

globals == <<config, DEBUG, stateNameDefined>>

NoEvent == [reaction |-> "", user |-> "", item |-> [channel |-> "", ts |-> ""], event_ts |-> ""]

Init ==
    /\ config \in Configs
    /\ DEBUG \in {"true", "false"}
    /\ stateNameDefined \in BOOLEAN
    /\ pc = [h \in Invocations |-> "idle"]
    /\ event = [h \in Invocations |-> NoEvent]
    /\ idx = [h \in Handlers |-> 0]
    /\ message_text = [h \in Handlers |-> None]
    /\ issue = [h \in Handlers |-> None]
    /\ title = [h \in Handlers |-> None]
    /\ description = [h \in Handlers |-> None]
    /\ team_id = [h \in Handlers |-> None]
    /\ trace = [h \in Invocations |-> <<>>]

\* The matched rule of the loop body.
ValueOf(h) == config.reaction_mentions[idx[h]]

\* The except clause that logs the error and sends no reply.
ExceptTrace_Silent(h, t) == t

\* The handler of lines 298-305: reply that the retrieval failed and return.
ExceptTrace(h, t) ==
    Append(t, Say(FetchFailedText, ChannelOf(event[h]), ThreadTsOf(event[h])))

\* ------------------------------------------------------------------ actions

\* Lines 222-232: a reaction_added event is delivered to a handler invocation.
ReactionAdded(h) ==
    /\ pc[h] = "idle"
    /\ \E e \in ReactionEvents : event' = [event EXCEPT ![h] = e]
    /\ idx' = [idx EXCEPT ![h] = 1]
    /\ pc' = [pc EXCEPT ![h] = "scan"]
    /\ UNCHANGED <<globals, message_text, issue, title, description, team_id, trace>>

\* Lines 234-241: the loop over reaction_mentions up to the next match, and the
\* acknowledgement of that match; with no match the handler ends.
MatchRules(h) ==
    /\ pc[h] = "scan"
    /\ LET j == FirstMatchFrom(config.reaction_mentions, event[h].reaction,
                               event[h].user, idx[h])
       IN  IF j = 0
           THEN /\ pc' = [pc EXCEPT ![h] = "done"]
                /\ UNCHANGED <<idx, trace>>
           ELSE /\ idx' = [idx EXCEPT ![h] = j]
                /\ trace' = [trace EXCEPT ![h] =
                       Append(@, Say(AckText(config.reaction_mentions[j]),
                                     ChannelOf(event[h]), ThreadTsOf(event[h])))]
                /\ pc' = [pc EXCEPT ![h] = "fetch"]
    /\ UNCHANGED <<globals, event, message_text, issue, title, description, team_id>>

\* Lines 245-257: the message fetch and the reading of its text.
FetchMessage(h) ==
    /\ pc[h] = "fetch"
    /\ \E response \in HistoryResponses :
         LET called == Append(trace[h],
                 Call("conversations_history",
                      <<ChannelOf(event[h]), MessageTsOf(event[h])>>, response))
             r == fetch_message_text(response)
         IN  IF r.raised
             THEN /\ trace' = [trace EXCEPT ![h] = ExceptTrace(h, called)]
                  /\ pc' = [pc EXCEPT ![h] = "done"]
                  /\ UNCHANGED message_text
             ELSE IF r.value = None
             THEN /\ trace' = [trace EXCEPT ![h] = called]
                  /\ pc' = [pc EXCEPT ![h] = "done"]
                  /\ UNCHANGED message_text
             ELSE /\ trace' = [trace EXCEPT ![h] = called]
                  /\ message_text' = [message_text EXCEPT ![h] = r.value]
                  /\ pc' = [pc EXCEPT ![h] = "llm"]
    /\ UNCHANGED <<globals, event, idx, issue, title, description, team_id>>

\* Lines 259-275: the summarizer call, the test of its result and, in dry-run
\* mode, the end of the try block.
Summarize(h) ==
    /\ pc[h] = "llm"
    /\ \E result \in AgentResults :
         LET called == Append(trace[h], Call("llm", <<message_text[h].v>>, result))
             r == llm(message_text[h].v, result)
         IN  IF r.raised
             THEN /\ trace' = [trace EXCEPT ![h] = ExceptTrace(h, called)]
                  /\ pc' = [pc EXCEPT ![h] = "done"]
                  /\ UNCHANGED <<issue, title, description, idx>>
             ELSE IF ~Truthy(r.value)
             THEN /\ trace' = [trace EXCEPT ![h] =
                         Append(called, Say(TitleFailedText, ChannelOf(event[h]),
                                            ThreadTsOf(event[h])))]
                  /\ issue' = [issue EXCEPT ![h] = r.value]
                  /\ pc' = [pc EXCEPT ![h] = "done"]
                  /\ UNCHANGED <<title, description, idx>>
             ELSE /\ trace' = [trace EXCEPT ![h] = called]
                  /\ issue' = [issue EXCEPT ![h] = r.value]
                  /\ title' = [title EXCEPT ![h] = Str(r.value.title)]
                  /\ description' = [description EXCEPT ![h] = Str(r.value.description)]
                  /\ IF DryRun(DEBUG)
                     THEN /\ idx' = [idx EXCEPT ![h] =
                                 LoopAfterTry(@, Len(config.reaction_mentions))]
                          /\ pc' = [pc EXCEPT ![h] = "scan"]
                     ELSE /\ pc' = [pc EXCEPT ![h] = "team"]
                          /\ UNCHANGED idx
    /\ UNCHANGED <<globals, event, message_text, team_id>>

\* Line 278 and, on entry to create_issue, the evaluation of state_name at
\* line 125: a NameError when no import binds it.
ResolveTeam(h) ==
    /\ pc[h] = "team"
    /\ \E response \in TeamResponses :
         LET called == Append(trace[h],
                 Call("teams", <<ValueOf(h).team_id>>, response))
             r == get_uuid_for_team(response)
         IN  IF r.raised \/ ~stateNameDefined
             THEN /\ trace' = [trace EXCEPT ![h] = ExceptTrace(h, called)]
                  /\ team_id' = [team_id EXCEPT ![h] = r.value]
                  /\ pc' = [pc EXCEPT ![h] = "done"]
             ELSE /\ trace' = [trace EXCEPT ![h] = called]
                  /\ team_id' = [team_id EXCEPT ![h] = r.value]
                  /\ pc' = [pc EXCEPT ![h] = "state"]
    /\ UNCHANGED <<globals, event, idx, message_text, issue, title, description>>

\* Line 125: the workflow-state lookup inside create_issue; its result is
\* bound to state_id and never used.
ResolveState(h) ==
    /\ pc[h] = "state"
    /\ \E response \in StateResponses :
         LET called == Append(trace[h], Call("workflowStates", <<>>, response))
             r == get_state_id_by_name(response, StateName)
         IN  IF r.raised
             THEN /\ trace' = [trace EXCEPT ![h] = ExceptTrace(h, called)]
                  /\ pc' = [pc EXCEPT ![h] = "done"]
             ELSE /\ trace' = [trace EXCEPT ![h] = called]
                  /\ pc' = [pc EXCEPT ![h] = "create"]
    /\ UNCHANGED <<globals, event, idx, message_text, issue, title, description, team_id>>

\* Lines 126-148 and 282-306: the mutation, the reply that reports its result
\* and the break that ends the loop.
CreateIssue(h) ==
    /\ pc[h] = "create"
    /\ \E response \in CreateResponses :
         LET called == Append(trace[h],
                 Call("issueCreate", <<team_id[h], title[h], description[h]>>, response))
             r == create_issue(response)
             channel == ChannelOf(event[h])
             thread_ts == ThreadTsOf(event[h])
         IN  IF r.raised
             THEN /\ trace' = [trace EXCEPT ![h] = ExceptTrace(h, called)]
                  /\ pc' = [pc EXCEPT ![h] = "done"]
                  /\ UNCHANGED <<issue, idx>>
             ELSE IF ~Truthy(r.value)
             THEN /\ trace' = [trace EXCEPT ![h] =
                         Append(called, Say(CreateFailedText, channel, thread_ts))]
                  /\ issue' = [issue EXCEPT ![h] = r.value]
                  /\ idx' = [idx EXCEPT ![h] = LoopAfterTry(@, Len(config.reaction_mentions))]
                  /\ pc' = [pc EXCEPT ![h] = "scan"]
             ELSE IF ~({"title", "id"} \subseteq r.value.keys)
             THEN /\ trace' = [trace EXCEPT ![h] = ExceptTrace(h, called)]
                  /\ issue' = [issue EXCEPT ![h] = r.value]
                  /\ pc' = [pc EXCEPT ![h] = "done"]
                  /\ UNCHANGED idx
             ELSE /\ trace' = [trace EXCEPT ![h] =
                         Append(called, Say(SuccessText(r.value), channel, thread_ts))]
                  /\ issue' = [issue EXCEPT ![h] = r.value]
                  /\ idx' = [idx EXCEPT ![h] = LoopAfterTry(@, Len(config.reaction_mentions))]
                  /\ pc' = [pc EXCEPT ![h] = "scan"]
    /\ UNCHANGED <<globals, event, message_text, title, description, team_id>>

\* Lines 191-217: an app_mention event is delivered and answered.
healthcheck(m) ==
    /\ pc[m] = "idle"
    /\ \E mention \in MentionEvents :
         LET text == healthcheck_text(mention.text, config)
         IN  /\ event' = [event EXCEPT ![m] = mention]
             /\ trace' = [trace EXCEPT ![m] =
                    IF text = None THEN @
                    ELSE Append(@, Say(text.v, mention.channel, mention.ts))]
    /\ pc' = [pc EXCEPT ![m] = "done"]
    /\ UNCHANGED <<globals, idx, message_text, issue, title, description, team_id>>

\* One handler invocation at a time.
Next ==
    \E h \in {"h1"} :
        \/ ReactionAdded(h)
        \/ MatchRules(h)
        \/ FetchMessage(h)
        \/ Summarize(h)
        \/ ResolveTeam(h)
        \/ ResolveState(h)
        \/ CreateIssue(h)

Spec == Init /\ [][Next]_vars

\* The same program when the star imports of lines 18-19 bind state_name, so
\* that create_issue gets past line 125.
InitStateNameBound == Init /\ stateNameDefined

SpecStateNameBound == InitStateNameBound /\ [][Next]_vars

\* The mention handler on its own.
NextMention == \E m \in MentionHandlers : healthcheck(m)

SpecMention == Init /\ [][NextMention]_vars

\* Two invocations of reaction_handler running at once: Bolt hands each event
\* to a worker thread, and the steps of the two handlers interleave at their
\* external calls. The configuration is the one loaded at line 336, here two
\* rules for the same reaction and mention; state_name is bound.
ConcConfig ==
    [reaction_mentions |->
        <<[reaction |-> "eyes", mention |-> "<@U1>", team_id |-> "TeamA"],
          [reaction |-> "eyes", mention |-> "<@U1>", team_id |-> "TeamB"]>>]

InitConc == Init /\ config = ConcConfig /\ stateNameDefined

\* The events and the answers of the concurrent runs: reactions "eyes" by
\* either user on a message of either channel, and for each external call an
\* answer of each kind the handler tells apart.
ConcEvents ==
    {e \in ReactionEvents :
        /\ e.reaction = "eyes"
        /\ e.item \in {[channel |-> "C1", ts |-> "100.1"], [channel |-> "C2", ts |-> "100.2"]}}
ConcAnswers ==
    HistoryResponses
    \cup AgentResults
    \cup {r \in TeamResponses : r.raises \/ r.status = 500 \/ r.nodes = <<"uuid-1">>}
    \cup {r \in StateResponses : r.nodes # <<>>}
    \cup {r \in CreateResponses :
            \/ r.status = 500
            \/ r.shape = "dataNull"
            \/ r.shape = "issue" /\ r.id = "abc-123" /\ r.title = "Fix login bug"}

ConcInputs(h) ==
    /\ event[h] \in ConcEvents \cup {NoEvent}
    /\ \A i \in 1..Len(trace[h]) :
           trace[h][i].op # "say" => trace[h][i].resp \in ConcAnswers

NextConc ==
    \E h \in Handlers :
        \/ ReactionAdded(h) /\ ConcInputs(h)'
        \/ MatchRules(h) /\ ConcInputs(h)'
        \/ FetchMessage(h) /\ ConcInputs(h)'
        \/ Summarize(h) /\ ConcInputs(h)'
        \/ ResolveTeam(h) /\ ConcInputs(h)'
        \/ ResolveState(h) /\ ConcInputs(h)'
        \/ CreateIssue(h) /\ ConcInputs(h)'

SpecConc == InitConc /\ [][NextConc]_vars

\* ------------------------------------------------- reading a handler's trace

RulesOf == config.reaction_mentions

\* Rule i names the reaction and the actor of h's event.
RuleIsFor(i, h) ==
    /\ RulesOf[i].reaction = event[h].reaction
    /\ RulesOf[i].mention = "<@" \o event[h].user \o ">"

RulesFor(h) == {i \in 1..Len(RulesOf) : RuleIsFor(i, h)}

Received(h) == pc[h] # "idle"

Indices(h) == 1..Len(trace[h])
SayIdx(h) == {i \in Indices(h) : trace[h][i].op = "say"}
CallIdx(h, ops) == {i \in Indices(h) : trace[h][i].op \in ops}

TrackerOps == {"teams", "workflowStates", "issueCreate"}
LookupOps == {"conversations_history", "llm"} \cup TrackerOps

\* The acknowledgement of h's event: "<@user> yarimasu!".
IsAck(h, e) == e.op = "say" /\ e.text = "<@" \o event[h].user \o "> yarimasu!"
AckIdx(h) == {i \in Indices(h) : IsAck(h, trace[h][i])}

\* The fetch of h answered with no message.
FetchedEmpty(h) ==
    \E i \in CallIdx(h, {"conversations_history"}) :
        /\ ~trace[h][i].resp.raises
        /\ trace[h][i].resp.shape \in {"noMessages", "empty"}

\* The summarizer of h was called and raised.
SummarizerRaised(h) == \E i \in CallIdx(h, {"llm"}) : trace[h][i].resp.raises
SummarizerReturned(h) == \E i \in CallIdx(h, {"llm"}) : ~trace[h][i].resp.raises

\* ------------------------------------------------------------------- claims

\* C1: an event whose (reaction, "<@"+user+">") pair equals no configured
\* rule's (reaction, mention) causes no external call and no thread reply.
C1_NoMatchNoEffect ==
    \A h \in Handlers : Received(h) /\ RulesFor(h) = {} => trace[h] = <<>>

\* A handled event that shares its reaction with a rule but not its actor.
C1_Witness ==
    /\ pc["h1"] = "done"
    /\ RulesFor("h1") = {}
    /\ \E i \in 1..Len(RulesOf) : RulesOf[i].reaction = event["h1"].reaction

\* C2: for an event that matches a rule exactly one acknowledgement is sent,
\* and it is the first thing the handler does: every fetch, summarizer or
\* tracker call and every other reply comes after it.
C2_OneAckBeforeLookups ==
    \A h \in Handlers :
        /\ Cardinality(AckIdx(h)) <= 1
        /\ trace[h] # <<>> => IsAck(h, trace[h][1])
        /\ RulesFor(h) # {} /\ pc[h] \notin {"idle", "scan"} =>
               Cardinality(AckIdx(h)) = 1
        /\ RulesFor(h) # {} /\ pc[h] = "fetch" => Len(trace[h]) = 1

\* A matched event whose handling got as far as the message fetch.
C2_Witness ==
    /\ pc["h1"] = "done"
    /\ RulesFor("h1") # {}
    /\ CallIdx("h1", {"conversations_history"}) # {}
    /\ Cardinality(AckIdx("h1")) = 1

\* The first-listed rule for h's event.
FirstRuleFor(h) == CHOOSE i \in RulesFor(h) : \A j \in RulesFor(h) : i <= j

\* C3: when several rules have the event's (reaction, mention), the pipeline
\* runs once (one acknowledgement, one fetch, one call of each later stage),
\* the team handed to team resolution is the first-listed rule's team, and
\* the handler ends without processing a later rule, whatever the outcome.
C3_FirstMatchWins ==
    \A h \in Handlers :
        Received(h) /\ Cardinality(RulesFor(h)) >= 2 =>
            /\ Cardinality(AckIdx(h)) <= 1
            /\ \A op \in LookupOps : Cardinality(CallIdx(h, {op})) <= 1
            /\ \A i \in CallIdx(h, {"teams"}) :
                   trace[h][i].args = <<RulesOf[FirstRuleFor(h)].team_id>>
            /\ pc[h] \in {"fetch", "llm", "team", "state", "create"} =>
                   idx[h] = FirstRuleFor(h)

\* Two rules for the event with different teams; the first rule's run ended
\* with a reply after the mutation.
C3_Witness ==
    /\ pc["h1"] = "done"
    /\ \E i, j \in RulesFor("h1") : RulesOf[i].team_id # RulesOf[j].team_id
    /\ CallIdx("h1", {"teams"}) # {}
    /\ CallIdx("h1", {"issueCreate"}) # {}
    /\ trace["h1"][Len(trace["h1"])].op = "say"

\* C4: with DEBUG == "true" no request goes to the tracker, for any event.
C4_DryRunNoTrackerCall ==
    DEBUG = "true" => \A h \in Handlers : CallIdx(h, TrackerOps) = {}

\* Dry run, a matched event, the message fetched and the title generated.
C4_Witness ==
    /\ DEBUG = "true"
    /\ pc["h1"] = "done"
    /\ SummarizerReturned("h1")

\* text = a \o part \o b for some a, b the replies of the model can have.
ReplyPrefixes ==
    {"Atarashii Issue ga sakusei saremashita: "}
    \cup {"Atarashii Issue ga sakusei saremashita: " \o t \o " (URL: " : t \in Titles}
ReplySuffixes ==
    {")"} \cup {" (URL: https://linear.app/ivry/issue/" \o i \o ")" : i \in IssueIds}
Contains(text, part) ==
    \E a \in ReplyPrefixes, b \in ReplySuffixes : text = a \o part \o b

\* The mutation of h was answered with HTTP 200 and a well-formed issue.
Confirmed(e) ==
    /\ e.op = "issueCreate"
    /\ ~e.resp.raises
    /\ e.resp.status = 200
    /\ e.resp.shape = "issue"

\* C5: when the mutation is answered with HTTP 200 and a well-formed issue,
\* the handler replies in the thread with a text that contains the created
\* issue's title and a URL that contains the created issue's id.
C5_SuccessReplyNamesIssue ==
    \A h \in Handlers : \A i \in Indices(h) :
        Confirmed(trace[h][i]) =>
            \E j \in SayIdx(h) :
                /\ j > i
                /\ trace[h][j].channel = event[h].item.channel
                /\ trace[h][j].thread_ts = event[h].item.ts
                /\ Contains(trace[h][j].text, trace[h][i].resp.title)
                /\ Contains(trace[h][j].text,
                            "https://linear.app/ivry/issue/" \o trace[h][i].resp.id)

\* A created issue whose title is not the title that was submitted.
C5_Witness ==
    /\ pc["h1"] = "done"
    /\ \E i \in Indices("h1") :
        /\ Confirmed(trace["h1"][i])
        /\ Str(trace["h1"][i].resp.title) # title["h1"]

\* The replies of the model that report a created issue.
SuccessTexts ==
    {"Atarashii Issue ga sakusei saremashita: " \o t
        \o " (URL: https://linear.app/ivry/issue/" \o i \o ")" : t \in Titles, i \in IssueIds}
SuccessIdx(h) == {i \in SayIdx(h) : trace[h][i].text \in SuccessTexts}
FailureIdx(h) ==
    {i \in SayIdx(h) : trace[h][i].text \in
        {"Issue no title wo seisei dekimasen deshita.",
         "Issue no sakusei ni shippai shimashita.",
         "Message no shutoku ni shippai shimashita."}}

\* The fetch of h failed: the call raised or the message had no text.
FetchFailed(h) ==
    \E i \in CallIdx(h, {"conversations_history"}) :
        trace[h][i].resp.raises \/ trace[h][i].resp.shape = "noText"
FetchedMessage(h) ==
    \E i \in CallIdx(h, {"conversations_history"}) :
        ~trace[h][i].resp.raises /\ trace[h][i].resp.shape = "message"

\* Team resolution of h returned absent: a non-200 answer, or no team.
AbsentAnswer(r) ==
    /\ ~r.raises
    /\ \/ r.status # 200
       \/ r.shape \in {"noData", "noTeams"}
       \/ r.shape = "teams" /\ r.nodes = <<>>
TeamAbsent(h) == \E i \in CallIdx(h, {"teams"}) : AbsentAnswer(trace[h][i].resp)
TeamResolved(h) ==
    \E i \in CallIdx(h, {"teams"}) :
        /\ ~trace[h][i].resp.raises
        /\ trace[h][i].resp.status = 200
        /\ trace[h][i].resp.shape = "teams"
        /\ trace[h][i].resp.nodes # <<>>

\* C6: a success reply is sent only in a run whose mutation was submitted and
\* answered with HTTP 200 and an issue payload, and in no run where an
\* earlier stage (fetch, summarizer, team resolution) failed.
C6_SuccessOnlyWhenConfirmed ==
    \A h \in Handlers : \A j \in SuccessIdx(h) :
        /\ \E i \in Indices(h) : i < j /\ Confirmed(trace[h][i])
        /\ FetchedMessage(h)
        /\ SummarizerReturned(h)
        /\ TeamResolved(h)

\* The workflow-state request of create_issue did not make it raise.
StateLookupPassed(h) ==
    \A i \in CallIdx(h, {"workflowStates"}) :
        /\ ~trace[h][i].resp.raises
        /\ trace[h][i].resp.shape \notin {"noData", "noWorkflowStates"}

\* C7: when team resolution returns absent, the mutation is never submitted
\* and the thread receives the "issue creation failed" reply.  Stated for the
\* runs in which no other request fails, the case most favourable to the claim.
C7_AbsentTeamNoMutation ==
    \A h \in Handlers :
        TeamAbsent(h) /\ StateLookupPassed(h) =>
            /\ CallIdx(h, {"issueCreate"}) = {}
            /\ pc[h] = "done" =>
                   \E j \in SayIdx(h) :
                       trace[h][j].text = "Issue no sakusei ni shippai shimashita."

\* C8 as stated: after a fetch that returned no message the thread has no
\* reply at all, and no summarizer or tracker call was made.
C8_EmptyFetchNoReply ==
    \A h \in Handlers :
        FetchedEmpty(h) =>
            /\ SayIdx(h) = {}
            /\ CallIdx(h, {"llm"} \cup TrackerOps) = {}

\* C8, amended: after a fetch that returned no message the handler has ended,
\* the acknowledgement sent before the fetch is the only reply of the thread,
\* and no summarizer or tracker call was made.
C8_EmptyFetchOnlyAck ==
    \A h \in Handlers :
        FetchedEmpty(h) =>
            /\ pc[h] = "done"
            /\ Len(trace[h]) = 2
            /\ IsAck(h, trace[h][1])
            /\ trace[h][2].op = "conversations_history"

\* A matched event whose fetch answered with an empty list of messages.
C8_Witness ==
    /\ pc["h1"] = "done"
    /\ \E i \in Indices("h1") :
        /\ trace["h1"][i].op = "conversations_history"
        /\ trace["h1"][i].resp.shape = "empty"

\* C9: when the summarizer fails, no tracker call is made and exactly one
\* failure reply (and no success reply) is sent; the handler ends there.
\* llm() builds an Issue from whatever the agent returns, so the only failure
\* it has is an exception.
C9_SummarizerFailureOneReply ==
    \A h \in Handlers :
        SummarizerRaised(h) =>
            /\ CallIdx(h, TrackerOps) = {}
            /\ Cardinality(FailureIdx(h)) = 1
            /\ SuccessIdx(h) = {}
            /\ Cardinality(SayIdx(h)) = 2
            /\ pc[h] = "done"

\* The summarizer raised outside dry-run mode.
C9_Witness ==
    /\ DEBUG = "false"
    /\ pc["h1"] = "done"
    /\ SummarizerRaised("h1")

\* The mutation of h failed: a non-200 answer or a payload without an issue.
CreateFailed(h) ==
    \E i \in CallIdx(h, {"issueCreate"}) : ~Confirmed(trace[h][i])

\* C10: a failure reply names the stage that failed: "failed to retrieve
\* message" only for a fetch failure, "could not generate issue title" for a
\* summarizer failure, "issue creation failed" for a team-resolution or
\* issue-creation failure.
C10_FailureReplyNamesStage ==
    \A h \in Handlers :
        /\ \A j \in SayIdx(h) :
            /\ trace[h][j].text = "Message no shutoku ni shippai shimashita." =>
                   FetchFailed(h)
            /\ trace[h][j].text = "Issue no title wo seisei dekimasen deshita." =>
                   SummarizerRaised(h)
            /\ trace[h][j].text = "Issue no sakusei ni shippai shimashita." =>
                   TeamAbsent(h) \/ CreateFailed(h)
        /\ SummarizerRaised(h) =>
               \E j \in SayIdx(h) :
                   trace[h][j].text = "Issue no title wo seisei dekimasen deshita."

\* The fetch of h raised.
FetchRaised(h) ==
    \E i \in CallIdx(h, {"conversations_history"}) : trace[h][i].resp.raises

\* C11: when the message fetch raises, the handler sends the "failed to
\* retrieve message" reply in the event's thread and ends: the trace is the
\* acknowledgement, the fetch and that reply, with no summarizer or tracker call.
C11_FetchRaiseRepliesAndAborts ==
    \A h \in Handlers :
        FetchRaised(h) =>
            /\ pc[h] = "done"
            /\ Len(trace[h]) = 3
            /\ trace[h][2].op = "conversations_history"
            /\ trace[h][3].op = "say"
            /\ trace[h][3].text = "Message no shutoku ni shippai shimashita."
            /\ trace[h][3].channel = event[h].item.channel
            /\ trace[h][3].thread_ts = event[h].item.ts
            /\ CallIdx(h, {"llm"} \cup TrackerOps) = {}

\* A matched event whose fetch raised, outside dry-run mode.
C11_Witness ==
    /\ DEBUG = "false"
    /\ pc["h1"] = "done"
    /\ FetchRaised("h1")

\* The payloads the claim calls malformed: data missing or null, issueCreate
\* missing, issue missing or null.
MalformedShapes == {"noData", "dataNull", "noIssueCreate", "noIssue", "issueNull"}

\* C12: create_issue never raises on an answer of the tracker: for HTTP 200
\* with the nested issue it returns that issue, for a non-200 status or a
\* malformed payload it returns None, and the handler then sends the "issue
\* creation failed" reply.
C12_CreateIssueNeverRaises ==
    \A h \in Handlers : \A i \in CallIdx(h, {"issueCreate"}) :
        LET r == trace[h][i].resp
        IN  /\ ~r.raises /\ r.status = 200 /\ r.shape = "issue" =>
                /\ issue[h].tag = "dict"
                /\ issue[h].id = r.id
                /\ issue[h].title = r.title
            /\ ~r.raises /\ (r.status # 200 \/ r.shape \in MalformedShapes) =>
                /\ issue[h] = None
                /\ Len(trace[h]) = i + 1
                /\ trace[h][i + 1].op = "say"
                /\ trace[h][i + 1].text = "Issue no sakusei ni shippai shimashita."

\* The last entry of h's trace is a success or failure reply that follows
\* the acknowledgement.
EndsWithFinalReply(h) ==
    /\ Len(trace[h]) >= 3
    /\ IsAck(h, trace[h][1])
    /\ Len(trace[h]) \in SuccessIdx(h) \cup FailureIdx(h)

\* The handling of a matched event whose fetch was not empty has ended.
HandledNonEmpty(h) ==
    /\ pc[h] = "done"
    /\ RulesFor(h) # {}
    /\ ~FetchedEmpty(h)

\* C13 as stated: every matched event whose fetch does not return an empty
\* result ends with a final success or failure reply after the
\* acknowledgement, in dry-run mode as in normal mode.
C13_AlwaysFinalReply ==
    \A h \in Handlers : HandledNonEmpty(h) => EndsWithFinalReply(h)

\* C13, amended: such an event ends with exactly one final success or
\* failure reply after the acknowledgement, except in dry-run mode when fetch
\* and summarizer succeed: then the acknowledgement is the only reply.
C13_FinalReplyUnlessDryRun ==
    \A h \in Handlers :
        HandledNonEmpty(h) =>
            IF DEBUG = "true" /\ SummarizerReturned(h)
            THEN SayIdx(h) = {1}
            ELSE /\ EndsWithFinalReply(h)
                 /\ Cardinality(SuccessIdx(h) \cup FailureIdx(h)) = 1

\* A run in normal mode that ended with the success reply.
C13_Witness ==
    /\ DEBUG = "false"
    /\ HandledNonEmpty("h1")
    /\ Len(trace["h1"]) \in SuccessIdx("h1")

\* The lower-cased text of m's mention contains "ping", "config" or "help".
HasKeyword(m) ==
    \E w \in {PingWord, ConfigWord, HelpWord} : In(w, lower(event[m].text))

\* C14: healthcheck sends exactly one reply, in the thread of the mention,
\* when the lower-cased text contains "ping", "config" or "help", sends none
\* otherwise, and makes no fetch, summarizer or tracker call.
C14_HealthcheckReplies ==
    \A m \in MentionHandlers :
        pc[m] = "done" =>
            /\ CallIdx(m, LookupOps) = {}
            /\ HasKeyword(m) =>
                /\ Len(trace[m]) = 1
                /\ trace[m][1].op = "say"
                /\ trace[m][1].channel = event[m].channel
                /\ trace[m][1].thread_ts = event[m].ts
            /\ ~HasKeyword(m) => trace[m] = <<>>

\* A mention that spells the keyword in another case was answered.
C14_Witness ==
    /\ pc["m1"] = "done"
    /\ event["m1"].text = <<"H", "E", "L", "P", " ", "m", "e">>
    /\ Len(trace["m1"]) = 1

\* The stages of the pipeline, and the answers with which a stage fails.
StageOps == {"conversations_history", "llm", "teams", "issueCreate"}
StageFailed(e) ==
    CASE e.op = "conversations_history" -> e.resp.raises \/ e.resp.shape # "message"
      [] e.op = "llm" -> e.resp.raises
      [] e.op = "teams" ->
            e.resp.raises \/ AbsentAnswer(e.resp)
            \/ e.resp.shape \in {"unparseable", "dataNull"}
      [] e.op = "issueCreate" -> ~Confirmed(e)
      [] OTHER -> FALSE

\* C15: within one event each stage is invoked at most once, and after a
\* stage has failed the handler ends: it makes no further external call.
C15_NoRetryStopAfterFailure ==
    \A h \in Handlers :
        /\ \A op \in StageOps : Cardinality(CallIdx(h, {op})) <= 1
        /\ \A i \in CallIdx(h, StageOps) :
               StageFailed(trace[h][i]) => \A j \in CallIdx(h, LookupOps) : j <= i

\* Entry e is a call of stage op that succeeded.
StageSucceeded(e, op) == e.op = op /\ ~StageFailed(e)

\* C16: the stages run in a fixed order and none before its predecessor has
\* succeeded: the summarizer after a fetch that returned a message, team
\* resolution after the summarizer returned a title, the mutation after team
\* resolution.
C16_StagesInOrder ==
    \A h \in Handlers :
        /\ \A i \in CallIdx(h, {"llm"}) :
               \E j \in 1..(i - 1) : StageSucceeded(trace[h][j], "conversations_history")
        /\ \A i \in CallIdx(h, {"teams"}) :
               \E j \in 1..(i - 1) : StageSucceeded(trace[h][j], "llm")
        /\ \A i \in CallIdx(h, {"issueCreate"}) :
               \E j \in 1..(i - 1) : StageSucceeded(trace[h][j], "teams")

\* C18: the issue submitted to the tracker carries the summarizer's output as
\* its title and the fetched message text, unchanged, as its description; the
\* summarizer was given that same text.
C18_IssueCarriesTitleAndText ==
    \A h \in Handlers :
        \A i \in CallIdx(h, {"issueCreate"}) :
            \E k \in CallIdx(h, {"conversations_history"}), j \in CallIdx(h, {"llm"}) :
                /\ k < j /\ j < i
                /\ StageSucceeded(trace[h][k], "conversations_history")
                /\ StageSucceeded(trace[h][j], "llm")
                /\ trace[h][j].args = <<trace[h][k].resp.text>>
                /\ trace[h][i].args[2] = Str(trace[h][j].resp.output)
                /\ trace[h][i].args[3] = Str(trace[h][k].resp.text)

C18_Witness ==
    \E h \in Handlers :
        \E i \in CallIdx(h, {"issueCreate"}) :
            /\ trace[h][i].args[3] = Str("add dark mode")
            /\ trace[h][i].args[2] = Str("Login fails")

\* C19: an event causes at most two thread replies: the acknowledgement,
\* which comes first, and at most one final reply, a success confirmation or
\* a single failure notice and never both.
C19_AtMostTwoReplies ==
    \A h \in Handlers :
        /\ Cardinality(SayIdx(h)) <= 2
        /\ AckIdx(h) \subseteq {1}
        /\ SayIdx(h) \subseteq AckIdx(h) \cup SuccessIdx(h) \cup FailureIdx(h)
        /\ Cardinality(SuccessIdx(h) \cup FailureIdx(h)) <= 1

C19_Witness ==
    \E h \in Handlers :
        /\ Cardinality(RulesFor(h)) >= 2
        /\ pc[h] = "done"
        /\ Cardinality(SayIdx(h)) = 2
        /\ FailureIdx(h) # {}

\* Everything an invocation of reaction_handler holds.
Locals(h) ==
    <<pc[h], event[h], idx[h], message_text[h], issue[h], title[h],
      description[h], team_id[h], trace[h]>>

\* The answers h's external calls got, in order.
RECURSIVE AnswersOf(_)
AnswersOf(t) ==
    IF t = <<>> THEN <<>>
    ELSE IF Head(t).op = "say" THEN AnswersOf(Tail(t))
    ELSE <<Head(t).resp>> \o AnswersOf(Tail(t))

\* Every reply and every fetch of h names the channel and the message of h's
\* own event.
AddressedToOwnEvent(h) ==
    /\ \A i \in SayIdx(h) :
           /\ trace[h][i].channel = event[h].item.channel
           /\ trace[h][i].thread_ts = event[h].item.ts
    /\ \A i \in CallIdx(h, {"conversations_history"}) :
           trace[h][i].args = <<event[h].item.channel, event[h].item.ts>>

\* Two handlers that got the same event and the same answers did the same.
SameInputsSameOutcome ==
    \A h, g \in Handlers :
        /\ pc[h] = "done" /\ pc[g] = "done"
        /\ event[h] = event[g]
        /\ AnswersOf(trace[h]) = AnswersOf(trace[g])
        => Locals(h) = Locals(g)

\* A step is a step of one handler: it leaves the rules and the environment
\* flag as they are and touches no other handler's locals.
StepOfOneHandler ==
    /\ UNCHANGED globals
    /\ \A h, g \in Handlers : h # g /\ Locals(h)' # Locals(h) => Locals(g)' = Locals(g)

\* C17: with handlers running concurrently, each handler's outcome depends
\* only on its own event, the read-only rules and the answers to its own
\* calls; its replies go to its own event's channel and message; no state
\* written by one handler is read by another.
C17_HandlersIndependent ==
    /\ [](\A h \in Handlers : AddressedToOwnEvent(h))
    /\ []SameInputsSameOutcome
    /\ [][StepOfOneHandler]_vars

\* Both handlers are under way at once, on different messages, each with its
\* acknowledgement sent.
C17_Witness ==
    /\ pc["h1"] = "create" /\ pc["h2"] = "llm"
    /\ event["h1"].item # event["h2"].item
    /\ AckIdx("h1") = {1} /\ AckIdx("h2") = {1}

====
